---------------------------- MODULE Spec2Model ----------------------------
(***************************************************************************)
(* MongoPythonAPI: the synchronous facade MongoAPI                         *)
(* (src/src/pymongo_api_wrapper/sync_mongo_api.py) and the asynchronous    *)
(* facade AsyncMongoAPI (src/async_mongo_api.py) over the pymongo driver.  *)
(*                                                                         *)
(* Every facade method is modelled by an operator that maps the method's   *)
(* arguments to the sequence of driver calls it issues and an operator     *)
(* that maps the driver's replies to the value the method returns.  The    *)
(* driver and the server behind it are modelled by what each called        *)
(* pymongo method does to a collection (DriverExec).                       *)
(*                                                                         *)
(* Python values: None is <<>>, an optional argument holding x is <<x>>.   *)
(* A document is a set of <<field, value>> pairs; returned values are      *)
(* records tagged with their Python type.                                  *)
(***************************************************************************)
EXTENDS Integers, Sequences, FiniteSets

\* ------------------------------------------------------------- bounds
\* values of the user field "a": 1..MaxVal
MaxVal == 3
\* ObjectIds the driver can generate: 1..MaxIds (caps the number of inserts)
MaxIds == 3

\* ------------------------------------------------------- Python values
None == <<>>
Some(x) == <<x>>

PyNone == [kind |-> "None"]
PyInt(n) == [kind |-> "int", val |-> n]
PyList(s) == [kind |-> "list", val |-> s]
PyDict(d) == [kind |-> "dict", val |-> d]
PyId(i) == [kind |-> "id", val |-> i]
PyCoroutine(e) == [kind |-> "coroutine", val |-> e]
PyRaise(e) == [kind |-> "raise", val |-> e]

\* ----------------------------------------------------------- documents
EmptyDoc == {}
Has(d, f) == \E p \in d : p[1] = f
Field(d, f) == (CHOOSE p \in d : p[1] = f)[2]
DocA(v) == {<<"a", v>>}
DocId(i) == {<<"_id", i>>}
\* a filter of equality conditions matches a document that holds each of them
Matches(d, flt) == flt \subseteq d
\* {"$set": s} applied to d
ApplySet(d, s) == {p \in d : ~Has(s, p[1])} \cup s
\* an inclusion projection: the listed fields, and _id unless {"_id": 0}
Project(d, proj) ==
    IF proj = None THEN d
    ELSE {p \in d : \/ p[1] = "_id" /\ <<"_id", 0>> \notin proj[1]
                    \/ p[1] # "_id" /\ <<p[1], 1>> \in proj[1]}

\* ---------------------------------------------------- sequence helpers
RECURSIVE SelectDocs(_, _)
SelectDocs(s, flt) ==
    IF s = <<>> THEN <<>>
    ELSE IF Matches(Head(s), flt) THEN <<Head(s)>> \o SelectDocs(Tail(s), flt)
    ELSE SelectDocs(Tail(s), flt)

RECURSIVE RejectDocs(_, _)
RejectDocs(s, flt) ==
    IF s = <<>> THEN <<>>
    ELSE IF Matches(Head(s), flt) THEN RejectDocs(Tail(s), flt)
    ELSE <<Head(s)>> \o RejectDocs(Tail(s), flt)

\* a missing field sorts before every number
SortKey(d, key) == IF Has(d, key) THEN Field(d, key) ELSE 0

\* s sorted by one (key, direction) pair; ties keep the stored order
RECURSIVE SortDocs(_, _)
SortDocs(s, sort) ==
    IF sort = None \/ Len(s) <= 1 THEN s
    ELSE LET key == sort[1][1]
             dir == sort[1][2]
             rest == SortDocs(SubSeq(s, 1, Len(s) - 1), sort)
             x == s[Len(s)]
             n == Cardinality({i \in 1..Len(rest) :
                      dir * SortKey(rest[i], key) <= dir * SortKey(x, key)})
         IN SubSeq(rest, 1, n) \o <<x>> \o SubSeq(rest, n + 1, Len(rest))

\* a cursor's window: skip first, then limit, 0 meaning no limit
Window(s, skip, limit) ==
    LET rest == SubSeq(s, skip + 1, Len(s))
    IN IF limit = 0 \/ limit >= Len(rest) THEN rest ELSE SubSeq(rest, 1, limit)

MapProject(s, proj) == [i \in 1..Len(s) |-> Project(s[i], proj)]

IdsOf(s) == {Field(s[i], "_id") : i \in 1..Len(s)}

\* ------------------------------------------------------------ the driver
\* The keyword arguments a facade method passes to a pymongo Collection
\* method; an argument the call does not pass is None.
Request(m, coll) ==
    [m |-> m, coll |-> coll, filter |-> None, projection |-> None,
     sort |-> None, skip |-> 0, limit |-> 0, document |-> None,
     documents |-> None, update |-> None, upsert |-> FALSE,
     pipeline |-> None, return_document |-> "BEFORE"]

\* What a driver call gives back: the reply and the collection afterwards.
Outcome(reply, col, nid) == [reply |-> reply, col |-> col, nextId |-> nid]

\* Cursor: a filter of None selects every document
Collection_find(col, nid, req) ==
    LET flt == IF req.filter = None THEN EmptyDoc ELSE req.filter[1]
        docs == Window(SortDocs(SelectDocs(col, flt), req.sort),
                       req.skip, req.limit)
    IN Outcome([kind |-> "Cursor", docs |-> MapProject(docs, req.projection)],
               col, nid)

Collection_find_one(col, nid, req) ==
    LET flt == IF req.filter = None THEN EmptyDoc ELSE req.filter[1]
        docs == SortDocs(SelectDocs(col, flt), req.sort)
    IN Outcome(IF docs = <<>> THEN PyNone
               ELSE PyDict(Project(docs[1], req.projection)), col, nid)

\* the document gets a generated _id unless it brings one
Collection_insert_one(col, nid, req) ==
    IF req.document = None THEN Outcome(PyRaise("TypeError"), col, nid)
    ELSE LET d == req.document[1]
             own == Has(d, "_id")
             stored == IF own THEN d ELSE d \cup DocId(nid)
         IN IF own /\ Field(d, "_id") \in IdsOf(col)
            THEN Outcome(PyRaise("DuplicateKeyError"), col, nid)
            ELSE Outcome([kind |-> "InsertOneResult",
                          inserted_id |-> Field(stored, "_id")],
                         Append(col, stored), IF own THEN nid ELSE nid + 1)

\* an ordered batch: documents are written in order up to the first failure
RECURSIVE InsertBatch(_, _, _, _)
InsertBatch(col, nid, docs, ids) ==
    IF docs = <<>>
    THEN Outcome([kind |-> "InsertManyResult", inserted_ids |-> ids], col, nid)
    ELSE LET d == Head(docs)
             own == Has(d, "_id")
             stored == IF own THEN d ELSE d \cup DocId(nid)
         IN IF own /\ Field(d, "_id") \in IdsOf(col)
            THEN Outcome(PyRaise("BulkWriteError"), col, nid)
            ELSE InsertBatch(Append(col, stored), IF own THEN nid ELSE nid + 1,
                             Tail(docs), Append(ids, Field(stored, "_id")))

Collection_insert_many(col, nid, req) ==
    IF req.documents = None \/ req.documents[1] = <<>>
    THEN Outcome(PyRaise("TypeError"), col, nid)
    ELSE InsertBatch(col, nid, req.documents[1], <<>>)

\* update_one (many = FALSE) and update_many (many = TRUE)
UpdateDocs(col, nid, req, many) ==
    IF req.filter = None \/ req.update = None
    THEN Outcome(PyRaise("TypeError"), col, nid)
    ELSE LET flt == req.filter[1]
             upd == req.update[1]
             hits == {i \in 1..Len(col) : Matches(col[i], flt)}
             target == IF many \/ hits = {} THEN hits
                       ELSE {CHOOSE i \in hits : \A j \in hits : i <= j}
             new == [i \in 1..Len(col) |->
                       IF i \in target THEN ApplySet(col[i], upd) ELSE col[i]]
             changed == {i \in target : new[i] # col[i]}
             seed == ApplySet(flt, upd)
             born == IF Has(seed, "_id") THEN seed ELSE seed \cup DocId(nid)
         IN IF target = {} /\ req.upsert
            THEN Outcome([kind |-> "UpdateResult", matched_count |-> 0,
                          modified_count |-> 0,
                          upserted_id |-> Some(Field(born, "_id"))],
                         Append(col, born),
                         IF Has(seed, "_id") THEN nid ELSE nid + 1)
            ELSE Outcome([kind |-> "UpdateResult",
                          matched_count |-> Cardinality(target),
                          modified_count |-> Cardinality(changed),
                          upserted_id |-> None], new, nid)

Collection_update_one(col, nid, req) == UpdateDocs(col, nid, req, FALSE)

Collection_update_many(col, nid, req) == UpdateDocs(col, nid, req, TRUE)

Collection_delete_one(col, nid, req) ==
    IF req.filter = None THEN Outcome(PyRaise("TypeError"), col, nid)
    ELSE LET hits == {i \in 1..Len(col) : Matches(col[i], req.filter[1])}
         IN IF hits = {}
            THEN Outcome([kind |-> "DeleteResult", deleted_count |-> 0], col, nid)
            ELSE LET k == CHOOSE i \in hits : \A j \in hits : i <= j
                 IN Outcome([kind |-> "DeleteResult", deleted_count |-> 1],
                            SubSeq(col, 1, k - 1) \o SubSeq(col, k + 1, Len(col)),
                            nid)

Collection_delete_many(col, nid, req) ==
    IF req.filter = None THEN Outcome(PyRaise("TypeError"), col, nid)
    ELSE Outcome([kind |-> "DeleteResult",
                  deleted_count |-> Len(SelectDocs(col, req.filter[1]))],
                 RejectDocs(col, req.filter[1]), nid)

Collection_count_documents(col, nid, req) ==
    IF req.filter = None THEN Outcome(PyRaise("TypeError"), col, nid)
    ELSE Outcome(PyInt(Len(SelectDocs(col, req.filter[1]))), col, nid)

\* a pipeline of {"$match": filter} stages; the empty pipeline passes everything
RECURSIVE RunPipeline(_, _)
RunPipeline(docs, stages) ==
    IF stages = <<>> THEN docs
    ELSE RunPipeline(SelectDocs(docs, Head(stages)), Tail(stages))

Collection_aggregate(col, nid, req) ==
    IF req.pipeline = None THEN Outcome(PyRaise("TypeError"), col, nid)
    ELSE Outcome([kind |-> "Cursor", docs |-> RunPipeline(col, req.pipeline[1])],
                 col, nid)

\* one server command: match (in sort order), mutate, read
Collection_find_one_and_update(col, nid, req) ==
    IF req.filter = None \/ req.update = None
    THEN Outcome(PyRaise("TypeError"), col, nid)
    ELSE LET docs == SortDocs(SelectDocs(col, req.filter[1]), req.sort)
         IN IF docs = <<>> THEN Outcome(PyNone, col, nid)
            ELSE LET before == docs[1]
                     after == ApplySet(before, req.update[1])
                     new == [i \in 1..Len(col) |->
                               IF col[i] = before THEN after ELSE col[i]]
                 IN Outcome(PyDict(Project(IF req.return_document = "AFTER"
                                           THEN after ELSE before,
                                           req.projection)),
                            new, nid)

\* ObjectIds the call may generate
IdsNeeded(req) ==
    CASE req.m = "insert_one" -> 1
      [] req.m = "insert_many" ->
            IF req.documents = None THEN 0 ELSE Len(req.documents[1])
      [] req.m \in {"update_one", "update_many"} -> IF req.upsert THEN 1 ELSE 0
      [] OTHER -> 0

\* A driver call on a client in state st against collection contents col.
\* A closed client refuses every operation.
DriverExec(st, col, nid, req) ==
    IF st = "closed" THEN Outcome(PyRaise("InvalidOperation"), col, nid)
    ELSE CASE req.m = "find" -> Collection_find(col, nid, req)
           [] req.m = "find_one" -> Collection_find_one(col, nid, req)
           [] req.m = "insert_one" -> Collection_insert_one(col, nid, req)
           [] req.m = "insert_many" -> Collection_insert_many(col, nid, req)
           [] req.m = "update_one" -> Collection_update_one(col, nid, req)
           [] req.m = "update_many" -> Collection_update_many(col, nid, req)
           [] req.m = "delete_one" -> Collection_delete_one(col, nid, req)
           [] req.m = "delete_many" -> Collection_delete_many(col, nid, req)
           [] req.m = "count_documents" ->
                 Collection_count_documents(col, nid, req)
           [] req.m = "aggregate" -> Collection_aggregate(col, nid, req)
           [] req.m = "find_one_and_update" ->
                 Collection_find_one_and_update(col, nid, req)

\* ----------------------------------------------------------- the facades
\* A method body is run up to its next driver call or its return: given the
\* replies of the driver calls made so far, it says what the method does next.
Call(req) == [do |-> "call", req |-> req]
Return(v) == [do |-> "return", val |-> v]

\* The arguments of a facade call; an omitted argument holds its default.
Args(op, coll) ==
    [op |-> op, collection |-> coll, filter_dict |-> None,
     projection_dict |-> None, sort |-> None, skip |-> 0, limit |-> 0,
     document_dict |-> None, document_list |-> None, update_dict |-> None,
     upsert |-> FALSE, pipeline |-> None, return_document |-> "AFTER"]

\* ---- MongoAPI (synchronous)
MongoAPI_find_one(a, replies) ==
    IF replies = <<>>
    THEN Call([Request("find_one", a.collection) EXCEPT
                 !.filter = a.filter_dict, !.projection = a.projection_dict,
                 !.sort = a.sort])
    ELSE Return(replies[1])

\* find with skip and limit passed in each other's place
MongoAPI_find_swapped(a, replies) ==
    IF replies = <<>>
    THEN Call([Request("find", a.collection) EXCEPT
                 !.filter = a.filter_dict, !.projection = a.projection_dict,
                 !.sort = a.sort, !.skip = a.limit, !.limit = a.skip])
    ELSE Return(PyList(replies[1].docs))

MongoAPI_find(a, replies) ==
    IF replies = <<>>
    THEN Call([Request("find", a.collection) EXCEPT
                 !.filter = a.filter_dict, !.projection = a.projection_dict,
                 !.sort = a.sort, !.skip = a.skip, !.limit = a.limit])
    ELSE Return(PyList(replies[1].docs))

\* insert_one with the test for an omitted document inverted
MongoAPI_insert_one_inverted(a, replies) ==
    LET document_dict == IF a.document_dict # None THEN Some(EmptyDoc)
                         ELSE a.document_dict
    IN IF replies = <<>>
       THEN Call([Request("insert_one", a.collection) EXCEPT
                    !.document = document_dict])
       ELSE Return(PyId(replies[1].inserted_id))

MongoAPI_insert_one(a, replies) ==
    LET document_dict == IF a.document_dict = None THEN Some(EmptyDoc)
                         ELSE a.document_dict
    IN IF replies = <<>>
       THEN Call([Request("insert_one", a.collection) EXCEPT
                    !.document = document_dict])
       ELSE Return(PyId(replies[1].inserted_id))

MongoAPI_insert(a, replies) ==
    IF a.document_list = None \/ Len(a.document_list[1]) < 1
    THEN Return(PyNone)
    ELSE IF replies = <<>>
    THEN Call([Request("insert_many", a.collection) EXCEPT
                 !.documents = a.document_list])
    ELSE Return(PyList(replies[1].inserted_ids))

\* update_one that returns how many documents matched
MongoAPI_update_one_matched(a, replies) ==
    IF replies = <<>>
    THEN Call([Request("update_one", a.collection) EXCEPT
                 !.filter = a.filter_dict, !.update = a.update_dict,
                 !.upsert = a.upsert])
    ELSE Return(PyInt(replies[1].matched_count))

MongoAPI_update_one(a, replies) ==
    IF replies = <<>>
    THEN Call([Request("update_one", a.collection) EXCEPT
                 !.filter = a.filter_dict, !.update = a.update_dict,
                 !.upsert = a.upsert])
    ELSE Return(PyInt(replies[1].modified_count))

MongoAPI_update(a, replies) ==
    IF replies = <<>>
    THEN Call([Request("update_many", a.collection) EXCEPT
                 !.filter = a.filter_dict, !.update = a.update_dict,
                 !.upsert = a.upsert])
    ELSE Return(PyInt(replies[1].modified_count))

MongoAPI_delete_one(a, replies) ==
    IF replies = <<>>
    THEN Call([Request("delete_one", a.collection) EXCEPT
                 !.filter = a.filter_dict])
    ELSE Return(PyInt(replies[1].deleted_count))

\* delete that calls delete_one
MongoAPI_delete_single(a, replies) ==
    IF replies = <<>>
    THEN Call([Request("delete_one", a.collection) EXCEPT
                 !.filter = a.filter_dict])
    ELSE Return(PyInt(replies[1].deleted_count))

MongoAPI_delete(a, replies) ==
    IF replies = <<>>
    THEN Call([Request("delete_many", a.collection) EXCEPT
                 !.filter = a.filter_dict])
    ELSE Return(PyInt(replies[1].deleted_count))

MongoAPI_count(a, replies) ==
    LET filter_dict == IF a.filter_dict = None THEN Some(EmptyDoc)
                       ELSE a.filter_dict
    IN IF replies = <<>>
       THEN Call([Request("count_documents", a.collection) EXCEPT
                    !.filter = filter_dict])
       ELSE Return(replies[1])

MongoAPI_aggregate(a, replies) ==
    LET pipeline == IF a.pipeline = None THEN Some(<<>>) ELSE a.pipeline
    IN IF replies = <<>>
       THEN Call([Request("aggregate", a.collection) EXCEPT
                    !.pipeline = pipeline])
       ELSE Return(PyList(replies[1].docs))

\* find_one_and_update done as three driver calls: find_one, update_one of
\* the found document, and for AFTER a second find_one
MongoAPI_find_one_and_update_split(a, replies) ==
    LET filter_dict == IF a.filter_dict = None THEN Some(EmptyDoc)
                       ELSE a.filter_dict
        found == Some(DocId(Field(replies[1].val, "_id")))
    IN CASE Len(replies) = 0 ->
              Call([Request("find_one", a.collection) EXCEPT
                      !.filter = filter_dict, !.sort = a.sort])
         [] Len(replies) = 1 ->
              IF replies[1] = PyNone THEN Return(PyNone)
              ELSE Call([Request("update_one", a.collection) EXCEPT
                           !.filter = found, !.update = a.update_dict])
         [] Len(replies) = 2 ->
              IF a.return_document = "BEFORE"
              THEN Return(PyDict(Project(replies[1].val, a.projection_dict)))
              ELSE Call([Request("find_one", a.collection) EXCEPT
                           !.filter = found, !.projection = a.projection_dict])
         [] OTHER -> Return(replies[3])

MongoAPI_find_one_and_update(a, replies) ==
    LET filter_dict == IF a.filter_dict = None THEN Some(EmptyDoc)
                       ELSE a.filter_dict
    IN IF replies = <<>>
       THEN Call([Request("find_one_and_update", a.collection) EXCEPT
                    !.filter = filter_dict, !.update = a.update_dict,
                    !.projection = a.projection_dict, !.sort = a.sort,
                    !.return_document = a.return_document])
       ELSE Return(replies[1])

\* ---- AsyncMongoAPI (asynchronous): every driver call is awaited
AsyncMongoAPI_find_one(a, replies) ==
    IF replies = <<>>
    THEN Call([Request("find_one", a.collection) EXCEPT
                 !.filter = a.filter_dict, !.projection = a.projection_dict,
                 !.sort = a.sort])
    ELSE Return(replies[1])

AsyncMongoAPI_find(a, replies) ==
    IF replies = <<>>
    THEN Call([Request("find", a.collection) EXCEPT
                 !.filter = a.filter_dict, !.projection = a.projection_dict,
                 !.sort = a.sort, !.skip = a.skip, !.limit = a.limit])
    ELSE Return(PyList(replies[1].docs))

AsyncMongoAPI_insert_one(a, replies) ==
    LET document_dict == IF a.document_dict = None THEN Some(EmptyDoc)
                         ELSE a.document_dict
    IN IF replies = <<>>
       THEN Call([Request("insert_one", a.collection) EXCEPT
                    !.document = document_dict])
       ELSE Return(PyId(replies[1].inserted_id))

AsyncMongoAPI_insert(a, replies) ==
    IF a.document_list = None \/ Len(a.document_list[1]) < 1
    THEN Return(PyList(<<>>))
    ELSE IF replies = <<>>
    THEN Call([Request("insert_many", a.collection) EXCEPT
                 !.documents = a.document_list])
    ELSE Return(PyList(replies[1].inserted_ids))

AsyncMongoAPI_update_one(a, replies) ==
    IF replies = <<>>
    THEN Call([Request("update_one", a.collection) EXCEPT
                 !.filter = a.filter_dict, !.update = a.update_dict,
                 !.upsert = a.upsert])
    ELSE Return(PyInt(replies[1].modified_count))

AsyncMongoAPI_update(a, replies) ==
    IF replies = <<>>
    THEN Call([Request("update_many", a.collection) EXCEPT
                 !.filter = a.filter_dict, !.update = a.update_dict,
                 !.upsert = a.upsert])
    ELSE Return(PyInt(replies[1].modified_count))

AsyncMongoAPI_delete_one(a, replies) ==
    IF replies = <<>>
    THEN Call([Request("delete_one", a.collection) EXCEPT
                 !.filter = a.filter_dict])
    ELSE Return(PyInt(replies[1].deleted_count))

AsyncMongoAPI_delete(a, replies) ==
    IF replies = <<>>
    THEN Call([Request("delete_many", a.collection) EXCEPT
                 !.filter = a.filter_dict])
    ELSE Return(PyInt(replies[1].deleted_count))

AsyncMongoAPI_count(a, replies) ==
    LET filter_dict == IF a.filter_dict = None THEN Some(EmptyDoc)
                       ELSE a.filter_dict
    IN IF replies = <<>>
       THEN Call([Request("count_documents", a.collection) EXCEPT
                    !.filter = filter_dict])
       ELSE Return(replies[1])

\* AsyncCollection.aggregate is a coroutine function: calling it only creates
\* the coroutine; the command goes to the server when the coroutine is awaited
AsyncCollection_aggregate(req) == PyCoroutine(req)

\* a_cur = col.aggregate(...) is not awaited, so a_cur is the coroutine and not
\* a cursor: `async for` over it raises TypeError (a coroutine has no
\* __aiter__) and the coroutine, never run, sends no command
AsyncMongoAPI_aggregate(a, replies) ==
    LET pipeline == IF a.pipeline = None THEN Some(<<>>) ELSE a.pipeline
        a_cur == AsyncCollection_aggregate(
                     [Request("aggregate", a.collection) EXCEPT
                        !.pipeline = pipeline])
    IN IF a_cur.kind = "coroutine" THEN Return(PyRaise("TypeError"))
       ELSE Return(PyList(a_cur.docs))

AsyncMongoAPI_find_one_and_update(a, replies) ==
    LET filter_dict == IF a.filter_dict = None THEN Some(EmptyDoc)
                       ELSE a.filter_dict
    IN IF replies = <<>>
       THEN Call([Request("find_one_and_update", a.collection) EXCEPT
                    !.filter = filter_dict, !.update = a.update_dict,
                    !.projection = a.projection_dict, !.sort = a.sort,
                    !.return_document = a.return_document])
       ELSE Return(replies[1])

Facades == {"MongoAPI", "AsyncMongoAPI"}

\* the body of method a.op of facade f
Method(f, a, replies) ==
    IF f = "MongoAPI"
    THEN CASE a.op = "find_one" -> MongoAPI_find_one(a, replies)
           [] a.op = "find" -> MongoAPI_find(a, replies)
           [] a.op = "insert_one" -> MongoAPI_insert_one(a, replies)
           [] a.op = "insert" -> MongoAPI_insert(a, replies)
           [] a.op = "update_one" -> MongoAPI_update_one(a, replies)
           [] a.op = "update" -> MongoAPI_update(a, replies)
           [] a.op = "delete_one" -> MongoAPI_delete_one(a, replies)
           [] a.op = "delete" -> MongoAPI_delete(a, replies)
           [] a.op = "count" -> MongoAPI_count(a, replies)
           [] a.op = "aggregate" -> MongoAPI_aggregate(a, replies)
           [] a.op = "find_one_and_update" ->
                 MongoAPI_find_one_and_update(a, replies)
    ELSE CASE a.op = "find_one" -> AsyncMongoAPI_find_one(a, replies)
           [] a.op = "find" -> AsyncMongoAPI_find(a, replies)
           [] a.op = "insert_one" -> AsyncMongoAPI_insert_one(a, replies)
           [] a.op = "insert" -> AsyncMongoAPI_insert(a, replies)
           [] a.op = "update_one" -> AsyncMongoAPI_update_one(a, replies)
           [] a.op = "update" -> AsyncMongoAPI_update(a, replies)
           [] a.op = "delete_one" -> AsyncMongoAPI_delete_one(a, replies)
           [] a.op = "delete" -> AsyncMongoAPI_delete(a, replies)
           [] a.op = "count" -> AsyncMongoAPI_count(a, replies)
           [] a.op = "aggregate" -> AsyncMongoAPI_aggregate(a, replies)
           [] a.op = "find_one_and_update" ->
                 AsyncMongoAPI_find_one_and_update(a, replies)

\* ---- construction and teardown
ValidServices == {"mongodb+srv", "mongodb"}
NoClient == [st |-> "none"]

\* pymongo.MongoClient(uri) / pymongo.AsyncMongoClient(uri): the handle, open
NewClient(uri) == [st |-> "open", uri |-> uri]

ConnectionUri(service, db_address, db_name, db_username, db_password) ==
    <<service, "://", db_username, ":", db_password, "@", db_address, "/",
      db_name, "?retryWrites=true&w=majority">>

\* A constructor that skips the scheme check: the client is built for any scheme
MongoAPI_init_unchecked(service, db_address, db_name, db_username, db_password) ==
    [raise |-> None,
     client |-> NewClient(ConnectionUri(service, db_address, db_name,
                                        db_username, db_password))]

\* __init__: the raised error (None if none) and the client the instance holds
MongoAPI_init(service, db_address, db_name, db_username, db_password) ==
    IF service \notin ValidServices
    THEN [raise |-> Some("ValueError"), client |-> NoClient]
    ELSE [raise |-> None,
          client |-> NewClient(ConnectionUri(service, db_address, db_name,
                                             db_username, db_password))]

AsyncMongoAPI_init(service, db_address, db_name, db_username, db_password) ==
    IF service \notin ValidServices
    THEN [raise |-> Some("ValueError"), client |-> NoClient]
    ELSE [raise |-> None,
          client |-> NewClient(ConnectionUri(service, db_address, db_name,
                                             db_username, db_password))]

\* MongoClient.close() releases the connection when it is called
MongoClient_close(cl) == [result |-> PyNone, client |-> [cl EXCEPT !.st = "closed"]]

\* AsyncMongoClient.close is a coroutine function: calling it only creates
\* the coroutine; the connection is released when the coroutine is awaited
AsyncMongoClient_close(cl) == [result |-> PyCoroutine("close"), client |-> cl]

\* close(): the client afterwards
MongoAPI_close(cl) == MongoClient_close(cl).client

\* the coroutine self.client.close() returns is dropped, not awaited
AsyncMongoAPI_close(cl) == AsyncMongoClient_close(cl).client

\* ------------------------------------------------------------- the state
Collections == {"c1", "c2"}
Callers == {1, 2}

VARIABLES
    client,     \* per facade: the connection handle it holds
    ctor,       \* per facade: the last constructor call and how it ended
    closed,     \* per facade: whether a call of close() has returned
    db,         \* per collection: its documents in stored order
    nextId,     \* the next ObjectId the driver generates
    pc,         \* per caller: "idle", "running" (in a facade method), "done"
    call,       \* per caller: the facade and arguments of its current call
    replies,    \* per caller: the driver replies its running method has got
    sent,       \* per caller: the driver calls its current method has made
    ret         \* per caller: what its finished method returned or raised

vars == <<client, ctor, closed, db, nextId, pc, call, replies, sent, ret>>

NoCall == [facade |-> "", args |-> Args("", "")]
NoCtor == [called |-> FALSE, service |-> "", raise |-> None]

TheUri == ConnectionUri("mongodb", "host", "db", "user", "pw")

\* Both facades constructed, against an empty database
Init ==
    /\ client = [f \in Facades |-> NewClient(TheUri)]
    /\ ctor = [f \in Facades |->
                 [called |-> TRUE, service |-> "mongodb", raise |-> None]]
    /\ closed = [f \in Facades |-> FALSE]
    /\ db = [c \in Collections |-> <<>>]
    /\ nextId = 1
    /\ pc = [c \in Callers |-> "idle"]
    /\ call = [c \in Callers |-> NoCall]
    /\ replies = [c \in Callers |-> <<>>]
    /\ sent = [c \in Callers |-> <<>>]
    /\ ret = [c \in Callers |-> PyNone]

\* No facade constructed yet
InitLife ==
    /\ client = [f \in Facades |-> NoClient]
    /\ ctor = [f \in Facades |-> NoCtor]
    /\ closed = [f \in Facades |-> FALSE]
    /\ db = [c \in Collections |-> <<>>]
    /\ nextId = 1
    /\ pc = [c \in Callers |-> "idle"]
    /\ call = [c \in Callers |-> NoCall]
    /\ replies = [c \in Callers |-> <<>>]
    /\ sent = [c \in Callers |-> <<>>]
    /\ ret = [c \in Callers |-> PyNone]

\* ------------------------------------------------------------ the actions
Services == {"mongodb", "mongodb+srv", "http", ""}
Addresses == {"host", ""}

\* MongoAPI(...) / AsyncMongoAPI(...)
Construct(f) ==
    /\ client[f] = NoClient
    /\ \E service \in Services, db_address \in Addresses :
         LET r == IF f = "MongoAPI"
                  THEN MongoAPI_init(service, db_address, "db", "user", "pw")
                  ELSE AsyncMongoAPI_init(service, db_address, "db", "user", "pw")
         IN /\ client' = [client EXCEPT ![f] = r.client]
            /\ ctor' = [ctor EXCEPT ![f] = [called |-> TRUE, service |-> service,
                                             raise |-> r.raise]]
    /\ UNCHANGED <<closed, db, nextId, pc, call, replies, sent, ret>>

\* facade.close()
Close(f) ==
    /\ client[f] # NoClient
    /\ client' = [client EXCEPT ![f] = IF f = "MongoAPI" THEN MongoAPI_close(@)
                                       ELSE AsyncMongoAPI_close(@)]
    /\ closed' = [closed EXCEPT ![f] = TRUE]
    /\ UNCHANGED <<ctor, db, nextId, pc, call, replies, sent, ret>>

HasIds(req) == nextId + IdsNeeded(req) <= MaxIds + 1

\* Caller c calls method a.op of facade f; the method runs up to its first
\* driver call, or to its return if it makes none.
Invoke(c, f, a) ==
    /\ pc[c] = "idle"
    /\ client[f] # NoClient
    /\ LET nxt == Method(f, a, <<>>)
       IN /\ nxt.do = "call" => HasIds(nxt.req)
          /\ pc' = [pc EXCEPT ![c] = IF nxt.do = "call" THEN "running" ELSE "done"]
          /\ ret' = [ret EXCEPT ![c] = IF nxt.do = "call" THEN PyNone ELSE nxt.val]
    /\ call' = [call EXCEPT ![c] = [facade |-> f, args |-> a]]
    /\ replies' = [replies EXCEPT ![c] = <<>>]
    /\ sent' = [sent EXCEPT ![c] = <<>>]
    /\ UNCHANGED <<client, ctor, closed, db, nextId>>

\* The driver call the method of caller c is waiting on takes effect and the
\* method runs on to its next driver call or to its end; an error the driver
\* raises ends the method.
Step(c) ==
    /\ pc[c] = "running"
    /\ LET f == call[c].facade
           a == call[c].args
           req == Method(f, a, replies[c]).req
           out == DriverExec(client[f].st, db[req.coll], nextId, req)
           got == Append(replies[c], out.reply)
           nxt == IF out.reply.kind = "raise" THEN Return(out.reply)
                  ELSE Method(f, a, got)
       IN /\ HasIds(req)
          /\ db' = [db EXCEPT ![req.coll] = out.col]
          /\ nextId' = out.nextId
          /\ sent' = [sent EXCEPT ![c] = Append(@, req)]
          /\ IF nxt.do = "return"
             THEN /\ pc' = [pc EXCEPT ![c] = "done"]
                  /\ ret' = [ret EXCEPT ![c] = nxt.val]
                  /\ replies' = [replies EXCEPT ![c] = <<>>]
             ELSE /\ HasIds(nxt.req)
                  /\ replies' = [replies EXCEPT ![c] = got]
                  /\ UNCHANGED <<pc, ret>>
    /\ UNCHANGED <<client, ctor, closed, call>>

\* The caller takes the result; it is ready for its next call.
Finish(c) ==
    /\ pc[c] = "done"
    /\ pc' = [pc EXCEPT ![c] = "idle"]
    /\ call' = [call EXCEPT ![c] = NoCall]
    /\ sent' = [sent EXCEPT ![c] = <<>>]
    /\ ret' = [ret EXCEPT ![c] = PyNone]
    /\ UNCHANGED <<client, ctor, closed, db, nextId, replies>>

\* Method a.op of facade f run from its call to its return against database
\* d, no other call taking effect meanwhile: what Invoke and then Step do.
RECURSIVE RunMethod(_, _, _, _, _, _)
RunMethod(f, a, d, nid, got, made) ==
    LET nxt == Method(f, a, got)
    IN IF nxt.do = "return"
       THEN [ret |-> nxt.val, db |-> d, nextId |-> nid, sent |-> made]
       ELSE LET req == nxt.req
                out == DriverExec(client[f].st, d[req.coll], nid, req)
                d2 == [d EXCEPT ![req.coll] = out.col]
            IN IF out.reply.kind = "raise"
               THEN [ret |-> out.reply, db |-> d2, nextId |-> out.nextId,
                     sent |-> Append(made, req)]
               ELSE RunMethod(f, a, d2, out.nextId, Append(got, out.reply),
                              Append(made, req))

\* ------------------------------------------------- the calls enumerated
Vals == 1..MaxVal
SetA(v) == Some(DocA(v))
Asc == Some(<<"a", 1>>)
Desc == Some(<<"a", -1>>)
OnlyA == Some({<<"a", 1>>})
OwnIdDoc == DocId(0) \cup DocA(1)

FindOneCalls ==
    {[Args("find_one", "c1") EXCEPT !.filter_dict = flt, !.sort = srt] :
        flt \in {None, Some(DocA(1))}, srt \in {None, Asc, Desc}}
    \cup {[Args("find_one", c) EXCEPT !.filter_dict = Some(DocId(i))] :
            c \in Collections, i \in 0..MaxIds}
    \cup {[Args("find_one", "c1") EXCEPT !.projection_dict = OnlyA]}

FindCalls ==
    {[Args("find", "c1") EXCEPT !.filter_dict = flt, !.sort = srt,
                                !.skip = sk, !.limit = lim] :
        flt \in {None, Some(DocA(1))}, srt \in {None, Asc, Desc},
        sk \in 0..1, lim \in 0..1}
    \cup {[Args("find", "c1") EXCEPT !.projection_dict = OnlyA]}

InsertOneCalls ==
    {[Args("insert_one", "c1") EXCEPT !.document_dict = d] :
        d \in {None, Some(EmptyDoc)} \cup {Some(DocA(v)) : v \in Vals}}
    \cup {[Args("insert_one", "c2") EXCEPT !.document_dict = d] :
            d \in {None, Some(OwnIdDoc)}}

InsertCalls ==
    {[Args("insert", c) EXCEPT !.document_list = l] :
        c \in Collections, l \in {None, Some(<<>>)}}
    \cup {[Args("insert", "c1") EXCEPT !.document_list = l] :
            l \in {Some(<<DocA(2), DocA(1)>>), Some(<<EmptyDoc>>)}}

UpdateCalls ==
    {[Args(op, "c1") EXCEPT !.filter_dict = flt, !.update_dict = upd,
                            !.upsert = ups] :
        op \in {"update_one", "update"},
        flt \in {Some(EmptyDoc), Some(DocA(1))},
        upd \in {SetA(1), SetA(2)}, ups \in BOOLEAN}
    \cup {[Args(op, "c1") EXCEPT !.filter_dict = flt, !.update_dict = upd] :
            op \in {"update_one", "update"},
            flt \in {None, Some(EmptyDoc)}, upd \in {None, SetA(1)}}

DeleteCalls ==
    {[Args(op, c) EXCEPT !.filter_dict = flt] :
        op \in {"delete_one", "delete"}, c \in Collections,
        flt \in {None, Some(EmptyDoc), Some(DocA(1))}}

CountCalls ==
    {[Args("count", c) EXCEPT !.filter_dict = flt] :
        c \in Collections, flt \in {None, Some(EmptyDoc), Some(DocA(1))}}

AggregateCalls ==
    {[Args("aggregate", "c1") EXCEPT !.pipeline = p] :
        p \in {None, Some(<<>>), Some(<<DocA(1)>>)}}

FindOneAndUpdateCalls ==
    {[Args("find_one_and_update", "c1") EXCEPT
         !.update_dict = upd, !.filter_dict = flt, !.sort = srt,
         !.return_document = rd] :
        upd \in {SetA(1), SetA(2)}, flt \in {None, Some(DocA(1))},
        srt \in {None, Desc}, rd \in {"BEFORE", "AFTER"}}
    \cup {[Args("find_one_and_update", "c1") EXCEPT
              !.update_dict = SetA(2), !.projection_dict = OnlyA]}

\* the calls of a caller using a facade on its own
AllCalls ==
    FindOneCalls \cup FindCalls \cup InsertOneCalls \cup InsertCalls
    \cup UpdateCalls \cup DeleteCalls \cup CountCalls \cup AggregateCalls
    \cup FindOneAndUpdateCalls

\* ---------------------------------------------------- the specifications
\* One caller using both facades, one call after the other.
Next ==
    \/ \E f \in Facades, a \in AllCalls : Invoke(1, f, a)
    \/ Step(1)
    \/ Finish(1)

Spec == Init /\ [][Next]_vars

\* the calls of callers that share a collection concurrently
ConcCalls ==
    {[Args("find_one_and_update", "c1") EXCEPT
         !.update_dict = upd, !.filter_dict = flt, !.return_document = rd] :
        upd \in {SetA(1), SetA(2)}, flt \in {None, Some(DocA(1))},
        rd \in {"BEFORE", "AFTER"}}
    \cup {[Args("insert_one", "c1") EXCEPT !.document_dict = SetA(1)],
          [Args("delete_one", "c1") EXCEPT !.filter_dict = Some(DocA(2))],
          [Args("update", "c1") EXCEPT !.filter_dict = Some(EmptyDoc),
                                       !.update_dict = SetA(1)]}

\* Two callers (threads on MongoAPI, tasks on AsyncMongoAPI) whose calls
\* overlap in time: the driver calls of one take effect between the call and
\* the return of the other.
NextConc ==
    \/ \E c \in Callers, f \in Facades, a \in ConcCalls : Invoke(c, f, a)
    \/ \E c \in Callers : Step(c)
    \/ \E c \in Callers : Finish(c)

SpecConc == Init /\ [][NextConc]_vars

\* the calls made around construction and close()
LifeCalls ==
    {[Args("insert_one", "c1") EXCEPT !.document_dict = SetA(1)],
     Args("count", "c1"),
     Args("find_one", "c1"),
     Args("insert", "c1"),
     [Args("delete", "c1") EXCEPT !.filter_dict = Some(EmptyDoc)]}

\* The life of the two facade instances, from before their construction.
NextLife ==
    \/ \E f \in Facades : Construct(f)
    \/ \E f \in Facades : Close(f)
    \/ \E f \in Facades, a \in LifeCalls : Invoke(1, f, a)
    \/ Step(1)
    \/ Finish(1)

SpecLife == InitLife /\ [][NextLife]_vars

\* ------------------------------------------------------------ the claims
Done(c, op) == pc[c] = "done" /\ call[c].args.op = op
\* the step in which the method of caller c ends after a driver call
Completes(c, op) ==
    pc[c] = "running" /\ pc'[c] = "done" /\ call[c].args.op = op

\* C1: in both facades a constructor call whose service is neither "mongodb"
\* nor "mongodb+srv" ends with ValueError (the configuration error) and the
\* instance holds no client: the client constructor was never reached, so
\* there is no handle and no network activity, whatever the other arguments.
C1_InvalidServiceRejected ==
    \A f \in Facades :
        ctor[f].called /\ ctor[f].service \notin {"mongodb", "mongodb+srv"}
        => ctor[f].raise = Some("ValueError") /\ client[f] = NoClient

\* both facades have been constructed with an unknown scheme, and failed
C1_Witness ==
    /\ ctor["MongoAPI"] = [called |-> TRUE, service |-> "http",
                           raise |-> Some("ValueError")]
    /\ ctor["AsyncMongoAPI"] = [called |-> TRUE, service |-> "",
                                raise |-> Some("ValueError")]
    /\ \A f \in Facades : client[f] = NoClient

EmptyList(l) == l = None \/ l = Some(<<>>)

\* C2: in both facades insert(collection, []) and insert(collection, None)
\* return an empty sequence of identifiers and make no driver call
\* (insert_many is not invoked, so the collection is not touched).
C2_EmptyInsertReturnsEmptyList ==
    \A c \in Callers :
        Done(c, "insert") /\ EmptyList(call[c].args.document_list)
        => ret[c] = PyList(<<>>) /\ sent[c] = <<>>

\* C3: delete and delete_one called with the filter omitted forward the
\* match-everything filter {} to the driver and return the number of
\* documents removed.
C3_OmittedFilterMatchesEverything ==
    \A c \in Callers :
        /\ pc[c] = "done"
        /\ call[c].args.op \in {"delete", "delete_one"}
        /\ call[c].args.filter_dict = None
        => /\ Len(sent[c]) = 1
           /\ sent[c][1].filter = Some(EmptyDoc)
           /\ ret[c].kind = "int"
\* the filter find_one_and_update and count use when none is given
OrEverything(flt) == IF flt = None THEN EmptyDoc ELSE flt[1]

\* C4: with callers running find_one_and_update concurrently on one
\* collection, a call that ends does all of its work in one step of the
\* server: it has made no driver call before and makes exactly one; if no
\* document matches its filter at that moment it returns None and changes
\* nothing; otherwise exactly one matching document is replaced by its
\* updated version, nothing else changes, and the call returns that document
\* as it was just before the step (BEFORE) or as it is just after (AFTER).
C4_FindOneAndUpdateAtomic ==
    [][\A c \in Callers :
         Completes(c, "find_one_and_update") =>
           LET a == call[c].args
               col == db[a.collection]
               new == db'[a.collection]
               hits == {i \in 1..Len(col) :
                          Matches(col[i], OrEverything(a.filter_dict))}
           IN /\ sent[c] = <<>> /\ Len(sent'[c]) = 1
              /\ \A o \in Collections \ {a.collection} : db'[o] = db[o]
              /\ IF hits = {} THEN ret'[c] = PyNone /\ new = col
                 ELSE \E i \in hits :
                        /\ new = [col EXCEPT ![i] = ApplySet(@, a.update_dict[1])]
                        /\ ret'[c] = PyDict(Project(
                               IF a.return_document = "BEFORE" THEN col[i]
                               ELSE new[i], a.projection_dict))]_vars

\* two calls with the same filter {a: 1} and update {$set: {a: 2}} have both
\* ended: one got the document, the other found none left to match
C4_Witness ==
    /\ \A c \in Callers :
         /\ Done(c, "find_one_and_update")
         /\ call[c].args.filter_dict = Some(DocA(1))
         /\ call[c].args.update_dict = SetA(2)
    /\ call[1].facade # call[2].facade
    /\ ret[1] = PyNone
    /\ ret[2].kind = "dict" /\ call[2].args.return_document = "BEFORE"
    /\ <<"a", 1>> \in ret[2].val
\* C5: update_one and update return the number of documents whose content
\* the call changed, not the number it matched: a matched document that the
\* update leaves as it was is not counted, update_one returns at most 1, and
\* without upsert no document is created and an update that matches nothing
\* returns 0 and changes nothing.
C5_UpdateReturnsModifiedCount ==
    [][\A c \in Callers :
         /\ Completes(c, "update_one") \/ Completes(c, "update")
         /\ ret'[c].kind # "raise"
         => LET a == call[c].args
                col == db[a.collection]
                new == db'[a.collection]
                hits == {i \in 1..Len(col) : Matches(col[i], a.filter_dict[1])}
                changed == {i \in 1..Len(col) : new[i] # col[i]}
            IN /\ Len(new) >= Len(col)
               /\ ret'[c] = PyInt(Cardinality(changed))
               /\ changed \subseteq hits
               /\ \A i \in hits :
                    ApplySet(col[i], a.update_dict[1]) = col[i] => i \notin changed
               /\ a.op = "update_one" => ret'[c].val <= 1
               /\ ~a.upsert => Len(new) = Len(col)
               /\ ~a.upsert /\ hits = {} => ret'[c] = PyInt(0) /\ new = col]_vars

\* update_one({a: 1}, {$set: {a: 1}}) matched a document and returned 0
C5_Witness ==
    /\ Done(1, "update_one")
    /\ call[1].args.filter_dict = Some(DocA(1))
    /\ call[1].args.update_dict = SetA(1)
    /\ ret[1] = PyInt(0)
    /\ \E i \in 1..Len(db["c1"]) : Matches(db["c1"][i], DocA(1))

\* find_one(coll, {"_id": id}) with the other arguments omitted
FindById(coll, id) ==
    [Args("find_one", coll) EXCEPT !.filter_dict = Some(DocId(id))]

\* C6: when insert_one(c, d) has returned an identifier, find_one(c, {_id:
\* that identifier}) made next through either facade returns d plus the
\* identifier field; with d omitted the inserted document is empty and the
\* round trip returns the identifier field alone.
C6_InsertOneFindOneRoundTrip ==
    \A c \in Callers :
        Done(c, "insert_one") /\ ret[c].kind = "id" =>
          LET a == call[c].args
              d == IF a.document_dict = None THEN EmptyDoc
                   ELSE a.document_dict[1]
              id == ret[c].val
          IN \A f \in Facades :
               RunMethod(f, FindById(a.collection, id), db, nextId, <<>>, <<>>).ret
                 = PyDict(d \cup DocId(id))

\* insert_one("c1", {a: 3}) returned the second generated identifier and
\* find_one by it gives {a: 3, _id: 2}
C6_Witness ==
    /\ Done(1, "insert_one")
    /\ call[1].args.document_dict = SetA(3)
    /\ ret[1] = PyId(2)
    /\ RunMethod("MongoAPI", FindById("c1", 2), db, nextId, <<>>, <<>>).ret
         = PyDict(DocA(3) \cup DocId(2))

\* C7: for every call of the shared surface the two facades make the same
\* driver calls with the same arguments and return a value of the same type.
C7_FacadesEquivalent ==
    \A a \in AllCalls :
        LET s == RunMethod("MongoAPI", a, db, nextId, <<>>, <<>>)
            t == RunMethod("AsyncMongoAPI", a, db, nextId, <<>>, <<>>)
        IN s.sent = t.sent /\ s.ret.kind = t.ret.kind

\* C8: in both facades, once close() has returned the connection is released.
C8_CloseReleases ==
    \A f \in Facades : closed[f] => client[f].st = "closed"
Max(x, y) == IF x >= y THEN x ELSE y
Min(x, y) == IF x <= y THEN x ELSE y
Range(s) == {s[i] : i \in 1..Len(s)}
\* the documents of a collection are {a: 1}, {a: 2}, {a: 3}, in any stored order
IsNums(col) ==
    /\ Len(col) = 3
    /\ \A v \in 1..3 : \E i \in 1..3 : <<"a", v>> \in col[i]

\* C9: find returns a list of distinct matching documents, as many as are
\* left of the n matching ones after skipping skip of them and cutting to
\* limit (0: no cut), so all n with skip and limit omitted; with a sort the
\* list is the window skip+1 .. skip+length of the matching documents in
\* sort order.  For documents {a:1},{a:2},{a:3} and sort a ascending it
\* returns them in the order 1,2,3 and with skip=1, limit=1 exactly {a:2}.
C9_FindSortSkipLimit ==
    \A c \in Callers :
        Done(c, "find") /\ ret[c].kind = "list" =>
          LET a == call[c].args
              r == ret[c].val
              M == SelectDocs(db[a.collection], OrEverything(a.filter_dict))
              n == Len(M)
              key(d) == a.sort[1][2] * SortKey(d, a.sort[1][1])
              As(s) == [i \in 1..Len(s) |-> Field(s[i], "a")]
          IN /\ Len(r) = IF a.limit = 0 THEN Max(n - a.skip, 0)
                         ELSE Min(a.limit, Max(n - a.skip, 0))
             /\ a.skip = 0 /\ a.limit = 0 => Len(r) = n
             /\ Range(r) \subseteq {Project(M[i], a.projection_dict) : i \in 1..n}
             /\ Cardinality(Range(r)) = Len(r)
             /\ a.sort # None =>
                  \A i \in 1..Len(r) :
                    /\ Cardinality({j \in 1..n : key(M[j]) < key(r[i])})
                         <= a.skip + i - 1
                    /\ Cardinality({j \in 1..n : key(M[j]) <= key(r[i])})
                         >= a.skip + i
             /\ IsNums(db[a.collection]) /\ a.filter_dict = None /\ a.sort = Asc =>
                  /\ a.skip = 0 /\ a.limit = 0 => As(r) = <<1, 2, 3>>
                  /\ a.skip = 1 /\ a.limit = 1 => As(r) = <<2>>

\* over documents stored as {a:3},{a:1},{a:2}, find sorted ascending with
\* skip=1 and limit=1 returned the one document {a:2}
C9_Witness ==
    /\ Done(1, "find")
    /\ call[1].args.sort = Asc /\ call[1].args.skip = 1 /\ call[1].args.limit = 1
    /\ call[1].args.filter_dict = None
    /\ Len(db["c1"]) = 3
    /\ <<"a", 3>> \in db["c1"][1] /\ <<"a", 1>> \in db["c1"][2]
    /\ <<"a", 2>> \in db["c1"][3]
    /\ Len(ret[1].val) = 1 /\ <<"a", 2>> \in ret[1].val[1]

\* count(coll, flt) with flt possibly omitted
CountOf(coll, flt) == [Args("count", coll) EXCEPT !.filter_dict = flt]

\* C10: a delete(c, {}) that returns leaves c empty, returns the number of
\* documents c held, and leaves every other collection as it was; a count of
\* c made next through either facade, with the filter {} or omitted, is 0.
C10_DeleteAllThenCountZero ==
    [][\A c \in Callers :
         /\ Completes(c, "delete")
         /\ call[c].args.filter_dict = Some(EmptyDoc)
         /\ ret'[c].kind # "raise"
         => LET coll == call[c].args.collection
            IN /\ ret'[c] = PyInt(Len(db[coll]))
               /\ db'[coll] = <<>>
               /\ \A o \in Collections \ {coll} : db'[o] = db[o]
               /\ \A f \in Facades, flt \in {None, Some(EmptyDoc)} :
                    RunMethod(f, CountOf(coll, flt), db', nextId', <<>>, <<>>).ret
                      = PyInt(0)]_vars

\* delete("c1", {}) removed three documents while c2 keeps its own
C10_Witness ==
    /\ Done(1, "delete")
    /\ call[1].args.collection = "c1"
    /\ call[1].args.filter_dict = Some(EmptyDoc)
    /\ ret[1] = PyInt(3)
    /\ db["c1"] = <<>> /\ db["c2"] # <<>>
\* the driver call the method of caller c has made takes effect in this step
Answered(c) == pc[c] = "running" /\ sent'[c] # sent[c]
\* the method of caller c ends in this step
Ends(c) == pc[c] # "done" /\ pc'[c] = "done"
\* insert with an empty or absent list
IsEmptyInsert(a) == a.op = "insert" /\ EmptyList(a.document_list)

\* C11: every facade operation makes at most one driver call: when it ends it
\* has made exactly one, or none if it is insert with an empty or absent
\* list; and when the driver call raises an error the operation ends in that
\* step with that same error as its outcome, having made that call only (no
\* second call, no retry, no fallback value).
C11_OneDriverCallErrorsPropagate ==
    [][\A c \in Callers :
         /\ Len(sent'[c]) <= 1
         /\ Ends(c) =>
               Len(sent'[c]) = IF IsEmptyInsert(call'[c].args) THEN 0 ELSE 1
         /\ Answered(c) =>
               LET f == call[c].facade
                   req == Method(f, call[c].args, replies[c]).req
                   out == DriverExec(client[f].st, db[req.coll], nextId, req)
               IN out.reply.kind = "raise" =>
                    /\ pc'[c] = "done"
                    /\ ret'[c] = out.reply
                    /\ sent'[c] = <<req>>]_vars
=============================================================================
